---- MODULE Spec2Model ----
(***************************************************************************)
(* release-it-action: a GitHub Action that seeds configuration files,      *)
(* merges a JSON override over defaults and runs the release library.      *)
(*                                                                         *)
(* Three revisions of run() are in the source:                             *)
(*   "A"  src/src/index.js 101-173   (ensureConfigFile, dynamic import)    *)
(*   "B"  src/src/index.js 190-361   (ensureConfigFileSync, git identity,  *)
(*                                    cleanup of config/release-it.json)   *)
(*   "C"  src/unnamed/part_000 13-140 (as B, without the cleanup)          *)
(* The variable rev says which one the process runs.                       *)
(***************************************************************************)
EXTENDS Integers, Sequences, FiniteSets, TLC

VARIABLES
  rev,              \* which revision of run() this process executes
  pc,               \* position of the process
  env,              \* process.env: HOME, GITHUB_ACTION_PATH, GITHUB_ACTOR
  fs,               \* the filesystem: existing path |-> "dir" or file content
  fs0,              \* history: the filesystem when the process started
  fsLoad,           \* history: the filesystem after the module-load seeding
  unwritable,       \* paths under which mkdir/writeFile/unlink throw
  inputs,           \* the action inputs as core.getInput returns them
  config,           \* run(): let config
  releaseItConfig,  \* run(): const releaseItConfig
  thrown,           \* the error on its way to the outer catch of run()
  outcome,          \* what the awaited releaseIt(...) call settled with
  outputs,          \* core.setOutput: name |-> value
  failed,           \* core.setFailed calls, in order
  log,              \* core.info/debug/warning/error calls (as a set)
  seedCalls,        \* history: seeder invocations so far
  gitCmds,          \* history: git-identity execSync calls attempted
  libLoaded,        \* the release-it module has been evaluated
  configFilePath,   \* revision A: the path ensureConfigFile returned
  libCalls          \* history: releaseIt(...) invocations

vars == <<rev, pc, env, fs, fs0, fsLoad, unwritable, inputs, config,
          releaseItConfig, thrown, outcome, outputs, failed, log,
          seedCalls, gitCmds, libLoaded, configFilePath, libCalls>>

(***************************************************************************)
(* JavaScript values.  Every value is a record of one shape: t is the      *)
(* typeof-like tag, s the text of a scalar, m the own enumerable           *)
(* properties of an object or array (key |-> value).                       *)
(***************************************************************************)
NoProps == <<>>

JsUndefined == [t |-> "undefined", s |-> "", m |-> NoProps]
JsNull == [t |-> "null", s |-> "", m |-> NoProps]
JsBool(b) == [t |-> "boolean", s |-> IF b THEN "true" ELSE "false", m |-> NoProps]
JsStr(x) == [t |-> "string", s |-> x, m |-> NoProps]
JsNum(x) == [t |-> "number", s |-> x, m |-> NoProps]
JsObj(props) == [t |-> "object", s |-> "", m |-> props]
JsArr(props) == [t |-> "array", s |-> "", m |-> props]

\* { ...a, ...b } : the keys of both, b's value where both have the key
Overlay(a, b) ==
  [k \in DOMAIN a \cup DOMAIN b |-> IF k \in DOMAIN b THEN b[k] ELSE a[k]]

\* v.k for a v that is neither null nor undefined
Get(v, k) ==
  IF v.t \in {"object", "array"} /\ k \in DOMAIN v.m THEN v.m[k] ELSE JsUndefined

\* v?.k
OptGet(v, k) ==
  IF v.t \in {"undefined", "null"} THEN JsUndefined ELSE Get(v, k)

\* a ?? b
Nullish(a, b) == IF a.t \in {"undefined", "null"} THEN b ELSE a

\* the truthiness of a value in `if (v)`
Truthy(v) ==
  CASE v.t \in {"undefined", "null"} -> FALSE
    [] v.t = "boolean" -> v.s = "true"
    [] v.t = "string" -> v.s # ""
    [] v.t = "number" -> v.s # "0"
    [] OTHER -> TRUE

\* the properties `...v` copies into an object literal: the own enumerable
\* properties of an object or array, the indexed characters of a string
\* (the strings of the model have at most one character), nothing for
\* undefined, null, booleans and numbers
Spread(v) ==
  CASE v.t \in {"object", "array"} -> v.m
    [] v.t = "string" /\ v.s # "" -> ("0" :> JsStr(v.s))
    [] OTHER -> NoProps

(***************************************************************************)
(* JSON.parse, over the lexemes of the text.  A token is [k, s]: k is      *)
(* "punct" (s one of { } : ,), "str" (s the text between the quotes),      *)
(* "lit" (true, false, null), "num", or "bad" (text that is no JSON        *)
(* lexeme, such as an unquoted key).                                       *)
(***************************************************************************)
Tok(k, s) == [k |-> k, s |-> s]
LBrace == Tok("punct", "{")
RBrace == Tok("punct", "}")
Colon == Tok("punct", ":")
Comma == Tok("punct", ",")

ParseFail == [ok |-> FALSE, v |-> JsUndefined, n |-> 0]
ParseOk(v, n) == [ok |-> TRUE, v |-> v, n |-> n]

LitValue(s) ==
  CASE s = "true" -> JsBool(TRUE)
    [] s = "false" -> JsBool(FALSE)
    [] OTHER -> JsNull

RECURSIVE ParseValue(_, _), ParseMembers(_, _, _)
\* one JSON value starting at token i; n is the index after it
ParseValue(toks, i) ==
  IF i > Len(toks) THEN ParseFail
  ELSE LET tk == toks[i] IN
    CASE tk.k = "lit" -> ParseOk(LitValue(tk.s), i + 1)
      [] tk.k = "str" -> ParseOk(JsStr(tk.s), i + 1)
      [] tk.k = "num" -> ParseOk(JsNum(tk.s), i + 1)
      [] tk = LBrace ->
           IF i + 1 <= Len(toks) /\ toks[i + 1] = RBrace
           THEN ParseOk(JsObj(NoProps), i + 2)
           ELSE ParseMembers(toks, i + 1, NoProps)
      [] OTHER -> ParseFail

\* "key" : value , ... } starting at token i; a repeated key keeps the last
ParseMembers(toks, i, acc) ==
  IF i + 1 > Len(toks) \/ toks[i].k # "str" \/ toks[i + 1] # Colon
  THEN ParseFail
  ELSE LET r == ParseValue(toks, i + 2) IN
    IF ~r.ok \/ r.n > Len(toks) THEN ParseFail
    ELSE LET acc2 == Overlay(acc, toks[i].s :> r.v) IN
      CASE toks[r.n] = RBrace -> ParseOk(JsObj(acc2), r.n + 1)
        [] toks[r.n] = Comma -> ParseMembers(toks, r.n + 1, acc2)
        [] OTHER -> ParseFail

\* JSON.parse(text): ok = FALSE stands for the SyntaxError it throws
JSONparse(toks) ==
  LET r == ParseValue(toks, 1) IN
    IF r.ok /\ r.n = Len(toks) + 1 THEN r ELSE ParseFail

(***************************************************************************)
(* The effective configuration: run(), const releaseItConfig.              *)
(***************************************************************************)
Revisions == {"A", "B", "C"}

IdxKey == <<"0", "1", "2", "3", "4", "5", "6", "7", "8", "9", "10", "11">>

\* an array literal
ArrOf(seq) == JsArr([k \in {IdxKey[i] : i \in 1..Len(seq)} |->
                       seq[CHOOSE i \in 1..Len(seq) : IdxKey[i] = k]])

\* one entry of the preset's commit-type list (the section title is display
\* text and is left out)
CommitType(type) == JsObj("type" :> JsStr(type) @@ "hidden" :> JsBool(FALSE))

\* hooks: B lists two shell commands to run before git:release, C has {}
HooksDefault(r) ==
  IF r = "B"
  THEN JsObj("before:git:release" :>
         ArrOf(<<JsStr("git add CHANGELOG.md package.json package-lock.json 2>/dev/null || true"),
                 JsStr("git reset HEAD config/release-it.json 2>/dev/null || true")>>))
  ELSE JsObj(NoProps)

PresetDefault(r) ==
  IF r = "B"
  THEN JsObj("name" :> JsStr("conventionalcommits") @@
             "types" :> ArrOf(<<CommitType("build"), CommitType("chore"),
                                CommitType("ci"), CommitType("docs"),
                                CommitType("feat"), CommitType("feature"),
                                CommitType("fix"), CommitType("bugfix"),
                                CommitType("bug"), CommitType("refactor"),
                                CommitType("style"), CommitType("test")>>))
  ELSE JsObj("name" :> JsStr("conventionalcommits") @@
             "type" :> ArrOf(<<JsObj("type" :> JsStr("feat")),
                               JsObj("type" :> JsStr("fix"))>>))

\* plugins: { '@release-it/conventional-changelog': {...}, ...config.plugins }
PluginsDefault(r) ==
  "@release-it/conventional-changelog" :>
     JsObj("infile" :> JsStr("CHANGELOG.md") @@ "preset" :> PresetDefault(r))

\* the keys the git section starts from, before ...config.git
GitDefault(r, cfg) ==
  LET git == Get(cfg, "git")
      commitOn == OptGet(git, "commit") # JsBool(FALSE)
      base == "commitMessage" :> JsStr("chore: release v${version}") @@
              "requireCleanWorkingDir" :> JsBool(FALSE)
  IN IF r = "A" THEN base
     ELSE base @@
          "commit" :> Nullish(OptGet(git, "commit"), JsBool(TRUE)) @@
          "addUntrackedFiles" :> JsBool(r = "C") @@
          "push" :> Nullish(OptGet(git, "push"), JsBool(commitOn)) @@
          "tag" :> Nullish(OptGet(git, "tag"), JsBool(commitOn))

GithubDefault(githubToken) ==
  "release" :> JsBool(FALSE) @@ "token" :> JsStr(githubToken)

GitlabDefault == "release" :> JsBool(FALSE)

NpmDefault == "publish" :> JsBool(FALSE)

\* a section of the literal: { <defaults>, ...config.<name> }
Section(defaults, cfg, name) == JsObj(Overlay(defaults, Spread(Get(cfg, name))))

\* the keys of the literal that come before the final ...config
Anticipated(r, cfg, githubToken, dryRun, cfgPath) ==
  LET common == "ci" :> JsBool(TRUE) @@
                "dryRun" :> JsBool(dryRun) @@
                "git" :> Section(GitDefault(r, cfg), cfg, "git") @@
                "github" :> Section(GithubDefault(githubToken), cfg, "github") @@
                "npm" :> Section(NpmDefault, cfg, "npm")
  IN IF r = "A"
     THEN common @@ "configPath" :> JsStr(cfgPath)
     ELSE common @@
          "configPath" :> JsBool(FALSE) @@
          "hooks" :> HooksDefault(r) @@
          "plugins" :> Section(PluginsDefault(r), cfg, "plugins") @@
          "gitlab" :> Section(GitlabDefault, cfg, "gitlab")

\* the whole literal: { <anticipated keys>, ...config }
ReleaseItConfig(r, cfg, githubToken, dryRun, cfgPath) ==
  JsObj(Overlay(Anticipated(r, cfg, githubToken, dryRun, cfgPath),
                Spread(cfg)))

\* evaluating the literal reads config.git / config.plugins: a TypeError
\* when config is null
BuildThrows(cfg) == cfg.t \in {"null", "undefined"}

(***************************************************************************)
(* The filesystem.  A path is the sequence of its names; fs maps each      *)
(* existing path to a node: a directory or a file with its text.           *)
(***************************************************************************)
DirNode == [kind |-> "dir", data |-> ""]
FileNode(text) == [kind |-> "file", data |-> text]

Root == <<>>

\* path.dirname
Dirname(p) == SubSeq(p, 1, Len(p) - 1)

\* path.join(p, name)
Join(p, name) == Append(p, name)

IsPrefix(p, q) == Len(p) <= Len(q) /\ SubSeq(q, 1, Len(p)) = p

\* the text of a path, as the messages and configPath show it
RECURSIVE PathStr(_)
PathStr(p) == IF p = <<>> THEN "" ELSE PathStr(Dirname(p)) \o "/" \o p[Len(p)]

\* fs.existsSync
Exists(f, p) == p \in DOMAIN f

\* fs.statSync(p).isDirectory() of an existing path
IsDirectory(f, p) == p \in DOMAIN f /\ f[p].kind = "dir"

\* the operation on p fails with EACCES: p lies at or under an unwritable path
Denied(unw, p) == \E u \in unw : IsPrefix(u, p)

\* the entries of directory p that are directories themselves:
\* fs.readdirSync(p) filtered by fs.statSync(entry).isDirectory()
SubDirs(f, p) ==
  {q \in DOMAIN f : Len(q) = Len(p) + 1 /\ Dirname(q) = p /\ f[q].kind = "dir"}

\* fs.readdirSync(p)
Readdir(f, p) == {q \in DOMAIN f : Len(q) = Len(p) + 1 /\ Dirname(q) = p}

\* fs.mkdirSync(p, { recursive: true }): creates the missing ancestors from
\* the top down; throws (ok = FALSE) at a component that is a file or that
\* may not be created, leaving what it created before that
MkdirP(f, unw, p) ==
  LET pre == {SubSeq(p, 1, i) : i \in 0..Len(p)}
      missing == {q \in pre : q \notin DOMAIN f}
      viaFile == \E q \in pre : q \in DOMAIN f /\ f[q].kind = "file"
      made == IF viaFile THEN {} ELSE {q \in missing : ~Denied(unw, q)}
  IN [ok |-> ~viaFile /\ made = missing,
      fs |-> [q \in DOMAIN f \cup made |-> IF q \in DOMAIN f THEN f[q] ELSE DirNode]]

\* fs.writeFileSync(p, text): throws when the parent is no directory, when p
\* is a directory, or when writing there is denied
WriteFile(f, unw, p, text) ==
  LET ok == /\ IsDirectory(f, Dirname(p))
            /\ ~IsDirectory(f, p)
            /\ ~Denied(unw, p)
  IN [ok |-> ok,
      fs |-> IF ok THEN [q \in DOMAIN f \cup {p} |-> IF q = p THEN FileNode(text) ELSE f[q]]
             ELSE f]

\* fs.unlinkSync(p) / fs.rmdirSync(p) of an existing path
Remove(f, p) == [q \in DOMAIN f \ {p} |-> f[q]]

(***************************************************************************)
(* The seeder: ensureConfigFile (revision A) and ensureConfigFileSync      *)
(* (setup-config.js, revisions B and C).                                   *)
(***************************************************************************)
\* JSON.stringify(minimalConfig, null, 2), without the line breaks
MinimalConfigText(r) ==
  IF r = "A"
  THEN "{\"git\":{\"requireCleanWorkingDir\":false},\"github\":{\"release\":false},\"npm\":{\"publish\":false}}"
  ELSE "{\"hooks\":{},\"git\":{\"requireCleanWorkingDir\":false},\"github\":{\"release\":false},\"gitlab\":{\"release\":false},\"npm\":{\"publish\":false}}"

\* JSON.stringify(minimalPackageJson, null, 2), without the line breaks
MinimalPackageJsonText ==
  "{\"name\":\"release-it-action\",\"version\":\"1.0.0\",\"private\":true}"

ConfigFileOf(dir) == Join(Join(dir, "config"), "release-it.json")

\* <HOME>/work/_actions
ActionsBase(e) == Join(Join(e.HOME, "work"), "_actions")

\* the guard of the _actions walk: HOME is set, <HOME>/work and
\* <HOME>/work/_actions exist, and readdirSync(actionsBase) does not throw
\* (it throws, and the walk is given up, when actionsBase is a file)
WalksActions(f, e) ==
  /\ e.HOME # <<>>
  /\ Exists(f, Join(e.HOME, "work"))
  /\ IsDirectory(f, ActionsBase(e))

OwnerDirs(f, e) == IF WalksActions(f, e) THEN SubDirs(f, ActionsBase(e)) ELSE {}
RepoDirs(f, e) == UNION {SubDirs(f, o) : o \in OwnerDirs(f, e)}
VersionDirs(f, e) == UNION {SubDirs(f, r) : r \in RepoDirs(f, e)}

\* Method 1: the candidates found under _actions
ActionCandidates(r, f, e) ==
  {ConfigFileOf(v) : v \in VersionDirs(f, e)} \cup
  (IF r = "A" THEN {} ELSE {ConfigFileOf(d) : d \in RepoDirs(f, e)})

\* configPaths: Method 1, then GITHUB_ACTION_PATH, then the working directory
ConfigPaths(r, f, e) ==
  ActionCandidates(r, f, e) \cup
  (IF e.GITHUB_ACTION_PATH # <<>> THEN {ConfigFileOf(e.GITHUB_ACTION_PATH)} ELSE {}) \cup
  {ConfigFileOf(e.cwd)}

\* configPaths[0] || cwdConfigFile: readdirSync fixes no order, so any
\* Method-1 candidate may be the first
PrimaryPaths(r, f, e) ==
  IF ActionCandidates(r, f, e) # {} THEN ActionCandidates(r, f, e)
  ELSE IF e.GITHUB_ACTION_PATH # <<>> THEN {ConfigFileOf(e.GITHUB_ACTION_PATH)}
  ELSE {ConfigFileOf(e.cwd)}

\* the body of the creation loop for one candidate
SeedConfigFile_Overwrite(r, f, unw, configFile) ==
  LET configDir == Dirname(configFile)
      d == IF ~Exists(f, configDir) THEN MkdirP(f, unw, configDir)
           ELSE [ok |-> TRUE, fs |-> f]
      w == WriteFile(d.fs, unw, configFile, MinimalConfigText(r))
      warn == {<<"warning", "Failed to create config file at", PathStr(configFile)>>}
  IN IF ~d.ok THEN [fs |-> d.fs, log |-> warn]
     ELSE IF w.ok
          THEN [fs |-> w.fs,
                log |-> {<<"info", "Created config file:", PathStr(configFile)>>}]
     ELSE [fs |-> d.fs, log |-> warn]

SeedConfigFile(r, f, unw, configFile) ==
  LET configDir == Dirname(configFile)
      d == IF ~Exists(f, configDir) THEN MkdirP(f, unw, configDir)
           ELSE [ok |-> TRUE, fs |-> f]
      w == WriteFile(d.fs, unw, configFile, MinimalConfigText(r))
      warn == {<<"warning", "Failed to create config file at", PathStr(configFile)>>}
  IN IF ~d.ok THEN [fs |-> d.fs, log |-> warn]
     ELSE IF Exists(d.fs, configFile)
          THEN [fs |-> d.fs,
                log |-> {<<"info", "Config file already exists:", PathStr(configFile)>>}]
     ELSE IF w.ok
          THEN [fs |-> w.fs,
                log |-> {<<"info", "Created config file:", PathStr(configFile)>>}]
     ELSE [fs |-> d.fs, log |-> warn]

\* package.json paths: owner, repo and version directories under _actions
PackageJsonPaths(f, e) ==
  {Join(d, "package.json") : d \in OwnerDirs(f, e) \cup RepoDirs(f, e) \cup VersionDirs(f, e)}

\* the body of the package.json loop for one path
SeedPackageJson(f, unw, packageJsonFile) ==
  LET dir == Dirname(packageJsonFile)
      d == IF ~Exists(f, dir) THEN MkdirP(f, unw, dir) ELSE [ok |-> TRUE, fs |-> f]
      w == WriteFile(d.fs, unw, packageJsonFile, MinimalPackageJsonText)
      warn == {<<"warning", "Failed to create package.json at", PathStr(packageJsonFile)>>}
  IN IF Exists(f, packageJsonFile) THEN [fs |-> f, log |-> {}]
     ELSE IF ~d.ok THEN [fs |-> d.fs, log |-> warn]
     ELSE IF w.ok
          THEN [fs |-> w.fs,
                log |-> {<<"info", "Created package.json:", PathStr(packageJsonFile)>>}]
     ELSE [fs |-> d.fs, log |-> warn]

\* for (const configFile of configPaths) { try {...} catch {...} }
RECURSIVE SeedConfigFiles(_, _, _, _, _)
SeedConfigFiles(r, f, unw, todo, lg) ==
  IF todo = {} THEN [fs |-> f, log |-> lg]
  ELSE LET c == CHOOSE x \in todo : TRUE
           one == SeedConfigFile(r, f, unw, c)
       IN SeedConfigFiles(r, one.fs, unw, todo \ {c}, lg \cup one.log)

\* for (const packageJsonFile of packageJsonPaths) { try {...} catch {...} }
RECURSIVE SeedPackageJsons(_, _, _, _)
SeedPackageJsons(f, unw, todo, lg) ==
  IF todo = {} THEN [fs |-> f, log |-> lg]
  ELSE LET c == CHOOSE x \in todo : TRUE
           one == SeedPackageJson(f, unw, c)
       IN SeedPackageJsons(one.fs, unw, todo \ {c}, lg \cup one.log)

\* ensureConfigFile (r = "A") / ensureConfigFileSync: the filesystem and the
\* log it leaves, and the paths it may return
EnsureConfigFile(r, f, unw, e) ==
  LET cs == SeedConfigFiles(r, f, unw, ConfigPaths(r, f, e), {})
      ps == IF r = "A" THEN cs
            ELSE SeedPackageJsons(cs.fs, unw, PackageJsonPaths(cs.fs, e), cs.log)
  IN [fs |-> ps.fs,
      log |-> ps.log \cup {<<"info", "Current working directory:", PathStr(e.cwd)>>},
      primary |-> PrimaryPaths(r, f, e)]

(***************************************************************************)
(* Errors, inputs and the outcomes of the release library.                 *)
(***************************************************************************)
NoError == [inst |-> FALSE, message |-> "", str |-> ""]

\* new Error(message): String(error) is "Error: " + message
ErrorOf(message) == [inst |-> TRUE, message |-> message, str |-> "Error: " \o message]

\* a thrown value that is no Error: a string
ThrownString(text) == [inst |-> FALSE, message |-> "", str |-> text]

\* error instanceof Error ? error.message : String(error)
CatchMessage_Generic(e) == "unknown error"

CatchMessage(e) == IF e.inst THEN e.message ELSE e.str

TokenMissing == ErrorOf("Input required and not supplied: github-token")
NullConfigError(r) ==
  ErrorOf("Cannot read properties of null (reading '" \o
          (IF r = "A" THEN "git" ELSE "plugins") \o "')")

NotRead == [token |-> "", config |-> <<>>, dryRun |-> ""]

\* the texts a rejection of releaseIt(...) may carry
RejectionMessages == {"tag already exists", "Not authenticated"}
Rejections ==
  {ErrorOf(m) : m \in RejectionMessages} \cup {ThrownString("aborted")}

\* what releaseIt(...) resolves with: undefined, or an object with any of
\* the three fields, each a text that may be empty
FieldValues ==
  [version |-> {JsStr("1.2.0"), JsStr("")},
   latestVersion |-> {JsStr("1.1.0"), JsStr("")},
   changelog |-> {JsStr("* feat: x"), JsStr("")}]
OutputNames == {"version", "latestVersion", "changelog"}
ResultObjects ==
  UNION {{JsObj(g) : g \in {h \in [S -> UNION {FieldValues[n] : n \in OutputNames}] :
                              \A n \in S : h[n] \in FieldValues[n]}}
         : S \in SUBSET OutputNames}
Results == {JsUndefined} \cup ResultObjects

NoOutcome == [kind |-> "none", value |-> JsUndefined, error |-> NoError]

(***************************************************************************)
(* The inputs the model draws.                                             *)
(***************************************************************************)
MaxEntries == 8       \* entries of the initial tree (seeder specification)
MaxUnwritable == 1    \* unwritable paths (seeder specification)
MaxTopKeys == 2       \* top-level keys of an override
MaxSectionKeys == 2   \* keys of one section of an override

Home == <<"home">>
Cwd == <<"w">>
WorkBase == Join(Home, "work")
ActionsDir == Join(WorkBase, "_actions")
OwnerDir == Join(ActionsDir, "o")
RepoDir == Join(OwnerDir, "r")
VersionDir == Join(RepoDir, "v")

Entry(p, n) == [p |-> p, n |-> n]
UserFile == FileNode("user")

\* the filesystem holding the entries of S besides /, the home directory and
\* the working directory
MkFs(S) ==
  [q \in {Root, Home, Cwd} \cup {x.p : x \in S} |->
     IF q \in {Root, Home, Cwd} THEN DirNode
     ELSE (CHOOSE x \in S : x.p = q).n]

\* what may exist before the process starts
Catalogue ==
  {Entry(WorkBase, DirNode), Entry(ActionsDir, DirNode), Entry(ActionsDir, UserFile),
   Entry(OwnerDir, DirNode), Entry(OwnerDir, UserFile),
   Entry(Join(ActionsDir, "o2"), DirNode),
   Entry(Join(OwnerDir, "package.json"), UserFile),
   Entry(RepoDir, DirNode), Entry(RepoDir, UserFile),
   Entry(VersionDir, DirNode), Entry(VersionDir, UserFile),
   Entry(Join(RepoDir, "v2"), DirNode),
   Entry(Join(RepoDir, "config"), DirNode),
   Entry(ConfigFileOf(RepoDir), UserFile),
   Entry(Join(VersionDir, "config"), DirNode), Entry(Join(VersionDir, "config"), UserFile),
   Entry(ConfigFileOf(VersionDir), UserFile), Entry(ConfigFileOf(VersionDir), DirNode),
   Entry(Join(Cwd, "config"), DirNode), Entry(Join(Cwd, "config"), UserFile),
   Entry(ConfigFileOf(Cwd), UserFile),
   Entry(Join(Join(Cwd, "config"), "notes.txt"), UserFile)}

RECURSIVE SubsetsUpTo(_, _)
SubsetsUpTo(S, n) ==
  IF n = 0 THEN {{}}
  ELSE LET smaller == SubsetsUpTo(S, n - 1)
       IN smaller \cup {T \cup {x} : T \in smaller, x \in S}

\* x may be added to the well-formed tree T
Fits(T, x) ==
  /\ \A y \in T : y.p # x.p
  /\ \/ Dirname(x.p) \in {Home, Cwd}
     \/ Entry(Dirname(x.p), DirNode) \in T

\* the well-formed trees of at most n entries of the catalogue
RECURSIVE TreesUpTo(_)
TreesUpTo(n) ==
  IF n = 0 THEN {{}}
  ELSE LET smaller == TreesUpTo(n - 1)
       IN smaller \cup
          {pair[1] \cup {pair[2]} :
             pair \in {y \in smaller \X Catalogue : Fits(y[1], y[2])}}

SeedEntrySets == TreesUpTo(MaxEntries)

SeedUnwritable ==
  SubsetsUpTo({RepoDir, Join(VersionDir, "config"), Join(Cwd, "config")}, MaxUnwritable)

Envs ==
  [HOME : {<<>>, Home},
   GITHUB_ACTION_PATH : {<<>>, VersionDir},
   GITHUB_ACTOR : {"", "octocat"},
   cwd : {Cwd}]

\* the trees of the run specification
TypicalTree ==
  {Entry(WorkBase, DirNode), Entry(ActionsDir, DirNode), Entry(OwnerDir, DirNode),
   Entry(RepoDir, DirNode), Entry(VersionDir, DirNode)}
OwnConfig ==
  {Entry(Join(Cwd, "config"), DirNode), Entry(ConfigFileOf(Cwd), UserFile)}
\* the trees of the run specification, each with its unwritable paths
World(S, unw) == [entries |-> S, unwritable |-> unw]
RunWorlds ==
  {World({}, {}),
   World(TypicalTree, {}),
   World(TypicalTree \cup OwnConfig, {}),
   World(OwnConfig \cup {Entry(Join(Join(Cwd, "config"), "notes.txt"), UserFile)}, {}),
   World({Entry(Join(Cwd, "config"), UserFile)}, {}),
   World(OwnConfig, {Join(Cwd, "config")}),
   World({}, {Join(Cwd, "config")})}
RunEnvs ==
  {e \in Envs : /\ e.HOME = Home
                /\ (e.GITHUB_ACTOR = "") = (e.GITHUB_ACTION_PATH = <<>>)}

\* the text (token sequence) of a value, as JSON.stringify would give it
RECURSIVE TextOf(_), MembersText(_, _)
TextOf(v) ==
  CASE v.t = "object" ->
         <<LBrace>> \o MembersText(v.m, DOMAIN v.m) \o <<RBrace>>
    [] v.t = "string" -> <<Tok("str", v.s)>>
    [] v.t = "number" -> <<Tok("num", v.s)>>
    [] v.t = "boolean" -> <<Tok("lit", v.s)>>
    [] OTHER -> <<Tok("lit", "null")>>
MembersText(m, keys) ==
  IF keys = {} THEN <<>>
  ELSE LET k == CHOOSE x \in keys : TRUE
           rest == keys \ {k}
       IN <<Tok("str", k), Colon>> \o TextOf(m[k]) \o
          (IF rest = {} THEN <<>> ELSE <<Comma>> \o MembersText(m, rest))

Bools == {JsBool(TRUE), JsBool(FALSE)}

\* the values an override may give each key of a section
SectionKeyValues ==
  [git |-> [push |-> Bools, commit |-> Bools, tag |-> Bools,
            commitMessage |-> {JsStr("x")}],
   github |-> [release |-> Bools, token |-> {JsStr("x")}],
   gitlab |-> [release |-> Bools],
   npm |-> [publish |-> Bools],
   plugins |-> [p |-> {JsObj(NoProps)}]]
SectionNames == DOMAIN SectionKeyValues

\* the maps from a set of at most n keys of kv to values kv allows
MapsUpTo(kv, n) ==
  UNION {{f \in [S -> UNION {kv[k] : k \in S}] : \A k \in S : f[k] \in kv[k]}
         : S \in SubsetsUpTo(DOMAIN kv, n)}

NonObjects == {JsNull, JsStr("x")}

\* the values an override may give each top-level key
TopKeyValues ==
  [k \in SectionNames |->
     {JsObj(f) : f \in MapsUpTo(SectionKeyValues[k], MaxSectionKeys)} \cup NonObjects]
  @@ [ci |-> Bools, dryRun |-> Bools, verbose |-> {JsNum("2")}]

Overrides(n) == {JsObj(f) : f \in MapsUpTo(TopKeyValues, n)}

\* texts that are no JSON: a text cut short, a trailing comma, an unquoted key
Prefixes(toks) == {SubSeq(toks, 1, i) : i \in 1..(Len(toks) - 1)}
Malformed ==
  UNION {Prefixes(TextOf(v)) : v \in Overrides(1) \ {JsObj(NoProps)}} \cup
  {<<LBrace, Tok("str", "ci"), Colon, Tok("lit", "true"), Comma, RBrace>>,
   <<LBrace, Tok("bad", "ci"), Colon, Tok("lit", "true"), RBrace>>,
   <<Tok("bad", "release")>>,
   <<LBrace, RBrace, RBrace>>}

\* JSON texts that are no object
ScalarTexts == {TextOf(JsNull), TextOf(JsBool(TRUE)), TextOf(JsStr("x")), TextOf(JsNum("5"))}

\* the config input of the configuration specification ("" when not given)
ConfigTexts ==
  {<<>>} \cup {TextOf(v) : v \in Overrides(MaxTopKeys)} \cup Malformed \cup ScalarTexts

\* the config input of the run specification
RunConfigTexts ==
  {<<>>, TextOf(JsNull), TextOf(JsStr("x")),
   TextOf(JsObj(NoProps)),
   TextOf(JsObj("git" :> JsObj("push" :> JsBool(FALSE)))),
   TextOf(JsObj("ci" :> JsBool(FALSE) @@ "github" :> JsObj("release" :> JsBool(TRUE)))),
   <<Tok("bad", "release")>>}
  \cup Prefixes(TextOf(JsObj("ci" :> JsBool(FALSE))))

DryRunTexts == {"", "true", "false"}
Token == "ghs_token"

(***************************************************************************)
(* The process.                                                            *)
(***************************************************************************)
\* the seeder this revision calls
Seeder(r) == IF r = "A" THEN "A" ELSE "B"

\* the state before the first statement runs
Start ==
  /\ pc = (IF rev = "A" THEN "run" ELSE "load")
  /\ fs0 = fs
  /\ fsLoad = fs
  /\ inputs = NotRead
  /\ config = JsUndefined
  /\ releaseItConfig = JsUndefined
  /\ thrown = NoError
  /\ outcome = NoOutcome
  /\ outputs = <<>>
  /\ failed = <<>>
  /\ log = {}
  /\ seedCalls = 0
  /\ gitCmds = <<>>
  /\ libLoaded = FALSE
  /\ configFilePath = <<>>
  /\ libCalls = 0

Init ==
  /\ rev \in Revisions
  /\ env \in RunEnvs
  /\ \E w \in RunWorlds : fs = MkFs(w.entries) /\ unwritable = w.unwritable
  /\ Start

\* core.setFailed(`Release failed: ${message}`) in the outer catch of run()
SetFailed(e) ==
  /\ thrown' = e
  /\ failed' = Append(failed, <<"Release failed: ", CatchMessage(e)>>)
  /\ pc' = "done"

\* setup-config.js, module level: try { ensureConfigFileSync() } catch {...}
LoadSetupConfig ==
  /\ pc = "load"
  /\ LET r == EnsureConfigFile(Seeder(rev), fs, unwritable, env)
     IN /\ fs' = r.fs
        /\ fsLoad' = r.fs
        /\ log' = log \cup r.log
  /\ seedCalls' = seedCalls + 1
  /\ pc' = "import"
  /\ UNCHANGED <<rev, env, fs0, unwritable, inputs, config, releaseItConfig,
                 thrown, outcome, outputs, failed, gitCmds, libLoaded,
                 configFilePath, libCalls>>

\* the release-it module is evaluated: import releaseIt from 'release-it'
\* (B, C: after setup-config.js) / await import('release-it') (A: in run())
ImportReleaseIt ==
  /\ pc = "import"
  /\ libLoaded' = TRUE
  /\ pc' = (IF rev = "A" THEN "inputs" ELSE "run")
  /\ UNCHANGED <<rev, env, fs, fs0, fsLoad, unwritable, inputs, config,
                 releaseItConfig, thrown, outcome, outputs, failed, log,
                 seedCalls, gitCmds, configFilePath, libCalls>>

\* the statement of run() after the seeder call: the import of release-it
\* in revision A, the git-identity block in B and C
AfterSeed_NoGitUser(r) == IF r = "A" THEN "import" ELSE "inputs"

AfterSeed(r) == IF r = "A" THEN "import" ELSE "git"

\* run(): ensureConfigFile() / ensureConfigFileSync()
RunEnsureConfigFile ==
  /\ pc = "run"
  /\ LET r == EnsureConfigFile(Seeder(rev), fs, unwritable, env)
     IN /\ fs' = r.fs
        /\ log' = log \cup r.log
        /\ IF rev = "A" THEN configFilePath' \in r.primary
           ELSE configFilePath' = configFilePath
  /\ seedCalls' = seedCalls + 1
  /\ pc' = AfterSeed(rev)
  /\ UNCHANGED <<rev, env, fs0, fsLoad, unwritable, inputs, config,
                 releaseItConfig, thrown, outcome, outputs, failed, gitCmds,
                 libLoaded, libCalls>>

GitUser(e) == IF e.GITHUB_ACTOR # "" THEN e.GITHUB_ACTOR ELSE "github-actions[bot]"
GitEmail(e) ==
  IF e.GITHUB_ACTOR # "" THEN e.GITHUB_ACTOR \o "@users.noreply.github.com"
  ELSE "github-actions[bot]@users.noreply.github.com"
GitConfigCommands(e) ==
  <<<<"git config --global user.name", GitUser(e)>>,
    <<"git config --global user.email", GitEmail(e)>>>>

\* run(): the two execSync('git config --global ...') calls in their try;
\* succeeded is how many of them return before one throws
ConfigureGitUser ==
  /\ pc = "git"
  /\ \E succeeded \in 0..2 :
       /\ gitCmds' = SubSeq(GitConfigCommands(env), 1,
                            IF succeeded = 2 THEN 2 ELSE succeeded + 1)
       /\ log' = log \cup
                 (IF succeeded = 2
                  THEN {<<"debug", "Configured git user:", GitUser(env)>>}
                  ELSE {<<"warning", "Failed to configure git user:">>})
  /\ pc' = "inputs"
  /\ UNCHANGED <<rev, env, fs, fs0, fsLoad, unwritable, inputs, config,
                 releaseItConfig, thrown, outcome, outputs, failed, seedCalls,
                 libLoaded, configFilePath, libCalls>>

\* core.getInput(name, { required: true }) throws on this value
RequiredMissing_Optional(tok) == FALSE

RequiredMissing(tok) == tok = ""

\* run(): the three core.getInput calls; github-token is required, and
\* getInput throws when it is not supplied
GetInputs ==
  /\ pc = "inputs"
  /\ \E tok \in {"", Token}, text \in RunConfigTexts, dry \in DryRunTexts :
       /\ inputs' = [token |-> tok, config |-> text, dryRun |-> dry]
       /\ IF RequiredMissing(tok)
          THEN SetFailed(TokenMissing)
          ELSE pc' = "parse" /\ UNCHANGED <<thrown, failed>>
  /\ UNCHANGED <<rev, env, fs, fs0, fsLoad, unwritable, config,
                 releaseItConfig, outcome, outputs, log, seedCalls, gitCmds,
                 libLoaded, configFilePath, libCalls>>

ParseWarning == <<"warning", "Failed to parse config JSON:">>

\* let config = {}; if (configInput) { try { config = JSON.parse(configInput) }
\* catch { core.warning(...) } }
ParsedConfig_NoFallback(text) ==
  LET r == JSONparse(text)
  IN IF text = <<>> THEN [config |-> JsObj(NoProps), log |-> {}]
     ELSE IF r.ok THEN [config |-> r.v, log |-> {}]
     ELSE [config |-> JsUndefined, log |-> {ParseWarning}]

ParsedConfig(text) ==
  LET r == JSONparse(text)
  IN IF text = <<>> THEN [config |-> JsObj(NoProps), log |-> {}]
     ELSE IF r.ok THEN [config |-> r.v, log |-> {}]
     ELSE [config |-> JsObj(NoProps), log |-> {ParseWarning}]

ParseConfig ==
  /\ pc = "parse"
  /\ config' = ParsedConfig(inputs.config).config
  /\ log' = log \cup ParsedConfig(inputs.config).log
  /\ pc' = "build"
  /\ UNCHANGED <<rev, env, fs, fs0, fsLoad, unwritable, inputs,
                 releaseItConfig, thrown, outcome, outputs, failed, seedCalls,
                 gitCmds, libLoaded, configFilePath, libCalls>>

\* const releaseItConfig = {...}; core.info('Running release-it...');
\* releaseIt(releaseItConfig) is called and awaited
BuildAndInvoke ==
  /\ pc = "build"
  /\ IF BuildThrows(config)
     THEN /\ SetFailed(NullConfigError(rev))
          /\ UNCHANGED <<releaseItConfig, log, libCalls>>
     ELSE /\ releaseItConfig' =
               ReleaseItConfig(rev, config, inputs.token, inputs.dryRun = "true",
                               PathStr(configFilePath))
          /\ log' = log \cup {<<"info", "Running release-it...">>}
          /\ libCalls' = libCalls + 1
          /\ pc' = "await"
          /\ UNCHANGED <<thrown, failed>>
  /\ UNCHANGED <<rev, env, fs, fs0, fsLoad, unwritable, inputs, config,
                 outcome, outputs, seedCalls, gitCmds, libLoaded, configFilePath>>

\* if (result) { if (result.version) core.setOutput('version', ...) ... }
SetOutputs_Swapped(result) ==
  [n \in {x \in OutputNames : Truthy(result) /\ Truthy(Get(result, x))} |->
     IF n = "latestVersion" /\ Truthy(Get(result, "version"))
     THEN Get(result, "version") ELSE Get(result, n)]

SetOutputs(result) ==
  [n \in {x \in OutputNames : Truthy(result) /\ Truthy(Get(result, x))} |->
     Get(result, n)]

ChangelogPath(e) == Join(e.cwd, "CHANGELOG.md")

\* revisions B and C: fs.existsSync('CHANGELOG.md') ? info : warning
VerifyChangelog(f, e) ==
  IF Exists(f, ChangelogPath(e))
  THEN {<<"info", "CHANGELOG.md created/updated successfully">>}
  ELSE {<<"warning", "CHANGELOG.md was not found at">>}

\* revision B: remove config/release-it.json and, when it is left empty, the
\* config directory; unlinkSync throws on a directory and where denied, and
\* that is logged; a failing rmdirSync is ignored
Cleanup(f, unw, e) ==
  LET tempConfigPath == ConfigFileOf(e.cwd)
      configDir == Join(e.cwd, "config")
      unlinked == Remove(f, tempConfigPath)
      removed == {<<"debug", "Removed temporary config file:">>}
  IN IF ~Exists(f, tempConfigPath) THEN [fs |-> f, log |-> {}]
     ELSE IF IsDirectory(f, tempConfigPath) \/ Denied(unw, tempConfigPath)
          THEN [fs |-> f,
                log |-> {<<"warning", "Failed to remove temporary config file:">>}]
     ELSE IF Readdir(unlinked, configDir) = {} /\ ~Denied(unw, configDir)
          THEN [fs |-> Remove(unlinked, configDir),
                log |-> removed \cup {<<"debug", "Removed empty config directory">>}]
     ELSE [fs |-> unlinked, log |-> removed]

SuccessMessage == <<"info", "Release completed successfully!">>

\* what run() does after releaseIt(...) resolved with result, on the
\* filesystem f the library left
AfterRelease(r, result, f, unw, e) ==
  LET clean == IF r = "B" THEN Cleanup(f, unw, e) ELSE [fs |-> f, log |-> {}]
  IN [outputs |-> SetOutputs(result),
      fs |-> clean.fs,
      log |-> (IF r = "A" THEN {} ELSE VerifyChangelog(f, e)) \cup clean.log
              \cup {SuccessMessage}
              \cup (IF Truthy(result) /\ Truthy(Get(result, "version"))
                    THEN {<<"info", "Released version:", Get(result, "version").s>>}
                    ELSE {})]

\* the awaited releaseIt(...) resolves; the library may have written
\* CHANGELOG.md in the working directory
ReleaseResolves ==
  /\ pc = "await"
  /\ \E result \in Results, wrote \in BOOLEAN :
       LET written == WriteFile(fs, {}, ChangelogPath(env), "changelog")
           after == AfterRelease(rev, result, IF wrote THEN written.fs ELSE fs,
                                 unwritable, env)
       IN /\ outcome' = [kind |-> "resolved", value |-> result, error |-> NoError]
          /\ outputs' = after.outputs
          /\ fs' = after.fs
          /\ log' = log \cup after.log
  /\ pc' = "done"
  /\ UNCHANGED <<rev, env, fs0, fsLoad, unwritable, inputs, config,
                 releaseItConfig, thrown, failed, seedCalls, gitCmds,
                 libLoaded, configFilePath, libCalls>>

\* revisions B and C, catch (releaseError): two core.error calls, then the
\* error is thrown again; releaseError.message of a value that is no Error
\* is undefined
ReleaseErrorLog(r, e) ==
  IF r = "A" THEN {}
  ELSE {<<"error", "release-it error:", IF e.inst THEN e.message ELSE "undefined">>}
       \cup (IF e.inst THEN {<<"error", "Stack trace:">>} ELSE {})

\* the awaited releaseIt(...) rejects
ReleaseRejects ==
  /\ pc = "await"
  /\ \E e \in Rejections :
       /\ outcome' = [kind |-> "rejected", value |-> JsUndefined, error |-> e]
       /\ log' = log \cup ReleaseErrorLog(rev, e)
       /\ SetFailed(e)
  /\ UNCHANGED <<rev, env, fs, fs0, fsLoad, unwritable, inputs, config,
                 releaseItConfig, outputs, seedCalls, gitCmds, libLoaded,
                 configFilePath, libCalls>>

Next ==
  \/ LoadSetupConfig
  \/ ImportReleaseIt
  \/ RunEnsureConfigFile
  \/ ConfigureGitUser
  \/ GetInputs
  \/ ParseConfig
  \/ BuildAndInvoke
  \/ ReleaseResolves
  \/ ReleaseRejects

Spec == Init /\ [][Next]_vars

(***************************************************************************)
(* The seeder alone, over many initial trees: the module-load invocation   *)
(* and the one at the start of run().                                      *)
(***************************************************************************)
InitSeed ==
  /\ rev \in {"A", "B"}
  /\ env \in {e \in Envs : e.GITHUB_ACTOR = ""}
  /\ fs \in {MkFs(S) : S \in SeedEntrySets}
  /\ unwritable \in SeedUnwritable
  /\ Start

NextSeed ==
  \/ LoadSetupConfig
  \/ ImportReleaseIt
  \/ RunEnsureConfigFile

SpecSeed == InitSeed /\ [][NextSeed]_vars

(***************************************************************************)
(* The configuration alone, over many config inputs: the process has       *)
(* seeded an empty tree, set the git identity and read its inputs.         *)
(***************************************************************************)
InitConfig ==
  /\ rev \in Revisions
  /\ env = [HOME |-> Home, GITHUB_ACTION_PATH |-> <<>>, GITHUB_ACTOR |-> "", cwd |-> Cwd]
  /\ unwritable = {}
  /\ fs0 = MkFs({})
  /\ LET once == EnsureConfigFile(Seeder(rev), fs0, unwritable, env)
         twice == EnsureConfigFile(Seeder(rev), once.fs, unwritable, env)
     IN /\ fsLoad = (IF rev = "A" THEN fs0 ELSE once.fs)
        /\ fs = (IF rev = "A" THEN once.fs ELSE twice.fs)
        /\ log = once.log \cup
                 (IF rev = "A" THEN {}
                  ELSE twice.log \cup {<<"debug", "Configured git user:", GitUser(env)>>})
  /\ seedCalls = (IF rev = "A" THEN 1 ELSE 2)
  /\ gitCmds = (IF rev = "A" THEN <<>> ELSE GitConfigCommands(env))
  /\ libLoaded = TRUE
  /\ configFilePath = (IF rev = "A" THEN ConfigFileOf(Cwd) ELSE <<>>)
  /\ inputs \in [token : {Token}, config : ConfigTexts, dryRun : {"true", ""}]
  /\ pc = "parse"
  /\ config = JsUndefined
  /\ releaseItConfig = JsUndefined
  /\ thrown = NoError
  /\ outcome = NoOutcome
  /\ outputs = <<>>
  /\ failed = <<>>
  /\ libCalls = 0

NextConfig ==
  \/ ParseConfig
  \/ BuildAndInvoke

SpecConfig == InitConfig /\ [][NextConfig]_vars

(***************************************************************************)
(* Properties.                                                             *)
(***************************************************************************)
Sections == {"git", "github", "gitlab", "npm"}

\* the keys a section of the literal starts from (none for gitlab in A)
SectionDefault(r, cfg, githubToken, name) ==
  CASE name = "git" -> GitDefault(r, cfg)
    [] name = "github" -> GithubDefault(githubToken)
    [] name = "gitlab" -> IF r = "A" THEN NoProps ELSE GitlabDefault
    [] OTHER -> NpmDefault

Built == pc = "await"

\* C1: once the configuration is built from an override that is an object,
\* every section the override gives as an object holds the override's values
\* for the override's keys and the defaults for the other default keys, and
\* every section the override does not mention holds exactly the defaults.
C1_PerKeyMerge ==
  (Built /\ config.t = "object") =>
    \A name \in Sections :
      LET d == SectionDefault(rev, config, inputs.token, name)
          o == Get(config, name)
          eff == Get(releaseItConfig, name)
      IN /\ (o.t = "object" /\ DOMAIN o.m # {}) => eff = JsObj(Overlay(d, o.m))
         /\ (name \notin DOMAIN config.m /\ d # NoProps) => eff = JsObj(d)

TokenIsMissing == pc \notin {"load", "import", "run", "git", "inputs"} /\ inputs.token = ""

\* C2: a run without the github-token input ends marked failed, with the
\* release library never invoked and no output set.
C2_MissingTokenFails ==
  TokenIsMissing =>
    /\ pc = "done"
    /\ Len(failed) = 1
    /\ libCalls = 0
    /\ outcome = NoOutcome
    /\ DOMAIN outputs = {}

C2_Witness == TokenIsMissing /\ pc = "done" /\ thrown = TokenMissing

\* C3 as stated: when the run fails for the missing token, the seeder has
\* created nothing and no git-identity command has been executed.
C3_FailsBeforeAnyStep ==
  (TokenIsMissing /\ failed # <<>>) => (fs = fs0 /\ seedCalls = 0 /\ gitCmds = <<>>)

\* C3 amended: when the run fails for the missing token, the seeder has run
\* (once in revision A, at module load and in run() in B and C), B and C
\* have attempted the git-identity commands, and nothing later has happened:
\* the config input is not parsed, the library not invoked, no output set.
C3_FailsBeforeParse ==
  (TokenIsMissing /\ failed # <<>>) =>
    /\ seedCalls = (IF rev = "A" THEN 1 ELSE 2)
    /\ rev # "A" => Len(gitCmds) >= 1
    /\ config = JsUndefined
    /\ ParseWarning \notin log
    /\ releaseItConfig = JsUndefined
    /\ libCalls = 0
    /\ DOMAIN outputs = {}

C3_Witness ==
  /\ TokenIsMissing /\ failed # <<>>
  /\ rev = "B" /\ fs # fs0 /\ Len(gitCmds) = 2

Unparseable == inputs.config # <<>> /\ ~JSONparse(inputs.config).ok

\* C4: a config input that is given and is no JSON does not fail the run: a
\* warning is logged, the override is the empty object, the configuration
\* passed on is the one built from no override, and the library is invoked.
C4_MalformedConfigIsNotFatal ==
  (Unparseable /\ inputs.token # "" /\ pc # "parse") =>
    /\ ParseWarning \in log
    /\ config = JsObj(NoProps)
    /\ pc \in {"build", "await"} => failed = <<>>
    /\ pc # "build" =>
         /\ libCalls = 1
         /\ releaseItConfig =
              ReleaseItConfig(rev, JsObj(NoProps), inputs.token,
                              inputs.dryRun = "true", PathStr(configFilePath))
         /\ Get(Get(releaseItConfig, "git"), "commitMessage") =
              JsStr("chore: release v${version}")
         /\ Get(Get(releaseItConfig, "npm"), "publish") = JsBool(FALSE)

C4_Witness == Unparseable /\ pc = "await" /\ libCalls = 1 /\ Len(inputs.config) > 1

\* C5: the run ends failed exactly when the token is missing or the library
\* invocation rejected.
C5_FailsOnlyOnTokenOrRejection ==
  pc = "done" =>
    ((failed # <<>>) <=> (inputs.token = "" \/ outcome.kind = "rejected"))

Contains(message, text) == \E i \in 1..Len(message) : message[i] = text

\* C6: when the library rejects with an Error of message M, the run is
\* marked failed exactly once, with a message that contains M, no output is
\* set and the success message is not logged.
C6_RejectionFailsWithMessage ==
  (outcome.kind = "rejected" /\ outcome.error.inst) =>
    /\ pc = "done"
    /\ Len(failed) = 1
    /\ Contains(failed[1], outcome.error.message)
    /\ DOMAIN outputs = {}
    /\ SuccessMessage \notin log

C6_Witness ==
  /\ outcome.kind = "rejected"
  /\ outcome.error = ErrorOf("tag already exists")
  /\ failed = <<(<<"Release failed: ", "tag already exists">>)>>

\* C7 as stated: every field of the result that is present is set as the
\* output of its name with the result's value, no output is set for a field
\* the result lacks, and the run does not fail.
C7_PresentFieldsAreSet ==
  outcome.kind = "resolved" =>
    /\ failed = <<>>
    /\ \A n \in OutputNames :
         IF n \in DOMAIN outcome.value.m
         THEN n \in DOMAIN outputs /\ outputs[n] = outcome.value.m[n]
         ELSE n \notin DOMAIN outputs

\* C7 amended: every field of the result that is present with a non-empty
\* value is set as the output of its name with exactly that value, no output
\* is set for a field that is absent or empty, and the run does not fail.
C7_NonEmptyFieldsAreSet ==
  outcome.kind = "resolved" =>
    /\ failed = <<>>
    /\ pc = "done"
    /\ \A n \in OutputNames :
         IF n \in DOMAIN outcome.value.m /\ outcome.value.m[n].s # ""
         THEN n \in DOMAIN outputs /\ outputs[n] = outcome.value.m[n]
         ELSE n \notin DOMAIN outputs

C7_Witness ==
  /\ outcome.kind = "resolved"
  /\ outcome.value = JsObj("version" :> JsStr("1.2.0") @@ "changelog" :> JsStr("* feat: x"))
  /\ DOMAIN outputs = {"version", "changelog"}

\* the candidate paths of the invocations made so far
CandidatesSeen ==
  (IF seedCalls >= 1 THEN ConfigPaths(Seeder(rev), fs0, env) ELSE {}) \cup
  (IF seedCalls >= 2 THEN ConfigPaths(Seeder(rev), fsLoad, env) ELSE {})

\* C8: after one and after two seeder invocations, every candidate path that
\* existed before the invocation still holds what it held, and the default
\* payload is in no path but candidates that did not exist.
C8_SeederNeverOverwrites ==
  /\ \A p \in CandidatesSeen :
       /\ p \in DOMAIN fs0 => (p \in DOMAIN fs /\ fs[p] = fs0[p])
       /\ p \in DOMAIN fsLoad => (p \in DOMAIN fs /\ fs[p] = fsLoad[p])
  /\ \A p \in DOMAIN fs :
       fs[p] = FileNode(MinimalConfigText(Seeder(rev))) =>
         (p \in CandidatesSeen /\ p \notin DOMAIN fs0)

C8_Witness ==
  /\ seedCalls = 2
  /\ ConfigFileOf(VersionDir) \in ConfigPaths(Seeder(rev), fs0, env)
  /\ ConfigFileOf(VersionDir) \in DOMAIN fs0
  /\ fs[ConfigFileOf(VersionDir)] = UserFile
  /\ fs[ConfigFileOf(Cwd)] = FileNode(MinimalConfigText("B"))

\* C9: the invocation of ensureConfigFileSync at the start of run() leaves
\* the filesystem as the module-load invocation left it.
C9_SecondSeedingAddsNothing ==
  (rev # "A" /\ seedCalls = 2) => fs = fsLoad

\* C10: the configuration passed on has ci = true and dryRun = (the dry-run
\* input is "true"), whatever the override holds.
C10_CiAndDryRunForced ==
  Built =>
    /\ Get(releaseItConfig, "ci") = JsBool(TRUE)
    /\ Get(releaseItConfig, "dryRun") = JsBool(inputs.dryRun = "true")

\* the keys that switch off platform releases and publishing, by section
\* (revision A's literal has no gitlab section)
ReleaseSwitches(r) ==
  {<<"github", "release">>, <<"npm", "publish">>} \cup
  (IF r = "A" THEN {} ELSE {<<"gitlab", "release">>})

\* C11: in the configuration passed on, github.release, gitlab.release and
\* npm.publish hold the override's value when the override gives the key and
\* are present and false otherwise, also when the override gives the section
\* without the key.
C11_ReleaseAndPublishOffByDefault ==
  (Built /\ config.t = "object") =>
    \A sw \in ReleaseSwitches(rev) :
      LET section == Get(config, sw[1])
          given == OptGet(section, sw[2])
          eff == OptGet(Get(releaseItConfig, sw[1]), sw[2])
      IN IF given # JsUndefined THEN eff = given
         ELSE section.t \in {"undefined", "object"} => eff = JsBool(FALSE)

\* C12: once the release library's module has been evaluated, no seeder
\* invocation creates a directory or a file, and the library is invoked at most
\* once.
C12_SeederDoneBeforeLibrary ==
  [][/\ (libLoaded /\ seedCalls' # seedCalls) => fs' = fs
     /\ libCalls' <= 1]_vars

\* C13: in revisions B and C, in the configuration passed on, git.push and
\* git.tag, when the override does not give them, are present and true unless
\* the override sets git.commit to false, and then false; git.commit is
\* present and true when the override does not give it.
C13_PushAndTagFollowCommit ==
  (Built /\ rev # "A" /\ config.t = "object"
     /\ Get(config, "git").t \in {"undefined", "object"}) =>
    LET given(k) == OptGet(Get(config, "git"), k)
        eff(k) == OptGet(Get(releaseItConfig, "git"), k)
        commitOn == given("commit") # JsBool(FALSE)
    IN /\ \A k \in {"push", "tag"} :
            given(k) = JsUndefined => eff(k) = JsBool(commitOn)
       /\ given("commit") = JsUndefined => eff("commit") = JsBool(TRUE)

\* a run of revision B whose release resolved has finished, cleanup included
CleanedUp == rev = "B" /\ pc = "done" /\ outcome.kind = "resolved"

\* C14: after a successful run of revision B, a <cwd>/config/release-it.json
\* that existed before the run still exists with the content it had, and so
\* does every other entry the config directory had before the run (the
\* directory is removed only when empty).
C14_CleanupKeepsTheUsersFile ==
  CleanedUp =>
    \A p \in DOMAIN fs0 :
      IsPrefix(Join(env.cwd, "config"), p) => (p \in DOMAIN fs /\ fs[p] = fs0[p])

====
